---- MODULE Spec2Model ----
(***************************************************************************)
(* TVPol-XML-Scraper (src/main.py): a linear pipeline that reads a URL     *)
(* list from a spreadsheet, fetches and parses one XML feed per URL,       *)
(* rewrites the range A2:H of the sheet, reads it back, writes a UTF-16    *)
(* tab-separated snapshot and mails it.  Three operations are wrapped in   *)
(* tenacity's @retry(stop_after_attempt(5), retry_if_exception_type(E)).   *)
(*                                                                         *)
(* Text is a sequence of Unicode code points.  Two values that are not     *)
(* text are kept apart from every text: NoneText (Python None, the .text   *)
(* of an element without character data) and NoElement (Element.find       *)
(* returning None).                                                        *)
(*                                                                         *)
(* The collaborators outside src/main.py are modelled by their contract:   *)
(* a call of requests, gspread or smtplib either takes effect and returns  *)
(* or raises without effect (except server.quit(), which may raise after   *)
(* sendmail took effect); the remote sheet stores and returns the values   *)
(* it is sent; tenacity behaves as its defaults say.                       *)
(***************************************************************************)
EXTENDS Integers, Sequences, FiniteSets, TLC

VARIABLES
    urls_list,       \* column M, header row excluded
    sheet,           \* remote contents of A2:H, a sequence of rows
    sheet_pre,       \* history: contents of A2:H when update_google_sheet was called
    sheet_calls,     \* history: the clear / update API calls the remote received
    finals,          \* history: A2:H at each successful return of update_google_sheet
    n_sync,          \* history: number of calls of update_google_sheet started
    pc,              \* position of the orchestrator
    url_i,           \* index of the for loop over urls_list
    attempt_number,  \* tenacity's attempt number inside the current guarded call
    calls,           \* history: times the guarded function body ran in the current call
    cur_op,          \* history: the guarded function called last
    last_kind,       \* history: how the last run of its body ended
    requests_log,    \* history: the URL of every requests.get, in order, kept while
                     \* none of them has raised (<<>> from the first failure on)
    response,        \* body of the last HTTP response
    fetched,         \* history: the feeds fetch_url returned, in order
    fetch_failed,    \* history: some requests.get raised
    all_results,     \* the accumulator handed to update_google_sheet
    log,             \* lines the parser wrote to the run log
    exc,             \* the exception that reached the top level
    sheet_data,      \* what sheet.get("A2:H") returned
    file,            \* bytes of TVPPol_output_<date>.txt, or NoFile
    sent             \* times server.sendmail handed the message to the relay

guard_vars == <<attempt_number, calls, cur_op, last_kind>>

fetch_vars == <<requests_log, response, fetched, fetch_failed>>

vars == <<urls_list, sheet, sheet_pre, sheet_calls, finals, n_sync, pc, url_i,
          guard_vars, fetch_vars, all_results, log, exc, sheet_data, file, sent>>

----------------------------------------------------------------------------
(* Bounds of the model *)

MaxUrls == 3
MaxRecords == 2
MaxSyncCalls == 2
MaxSyncRows == 2
MaxSnapRows == 2

(* stop_after_attempt(5) of the three decorators *)
FETCH_STOP_AFTER == 5
SHEET_STOP_AFTER == 5
EMAIL_STOP_AFTER == 5

----------------------------------------------------------------------------
(* Values *)

NoneText == <<-1>>
NoElement == <<-2>>
NoFile == <<-3>>

TAB == 9
NL == 10

\* "Zakończenie dnia" as code points (n-acute is U+0144 = 324)
FILLER_TITLE == <<90, 97, 107, 111, 324, 99, 122, 101, 110, 105, 101, 32, 100, 110, 105, 97>>

IsStr(v) == v # NoneText /\ v # NoElement

NoExc == [type |-> "none", op |-> "none", attempt |-> 0, wrapped |-> "none"]

\* an exception raised by the body of `op` on attempt `n`
Raised(type, op, n) == [type |-> type, op |-> op, attempt |-> n, wrapped |-> "none"]

\* tenacity.RetryError: holds the last attempt, whose exception is its cause
RetryError(type, op, n) == [type |-> "RetryError", op |-> op, attempt |-> n, wrapped |-> type]

----------------------------------------------------------------------------
(* tenacity: @retry(stop=stop_after_attempt(n), retry=retry_if_exception_type(E)) *)
(* The wait (wait_fixed(120)) only delays the next attempt and is not modelled.   *)

\* variant: stops one attempt late
ShouldStop_OneLate(attempt, stop_after) == attempt > stop_after

\* stop_after_attempt(n): stop once the attempt just made is number n or later
ShouldStop(attempt, stop_after) == attempt >= stop_after

\* What the wrapper does with the outcome of one attempt.  kind is "ok", "retryable"
\* (an instance of E) or "other".  Without reraise=True an exhausted retry raises
\* tenacity.RetryError from the last attempt's exception.
RetryDecision(attempt, kind, stop_after) ==
    IF kind = "ok" THEN "return"
    ELSE IF kind = "other" THEN "reraise"
    ELSE IF ShouldStop(attempt, stop_after) THEN "retry_error"
    ELSE "again"

\* The exception a guarded call ends with, for a decision that ends it by raising
RaisedBy(decision, op, attempt, retry_type, other_type) ==
    IF decision = "reraise" THEN Raised(other_type, op, attempt)
    ELSE IF decision = "retry_error" THEN RetryError(retry_type, op, attempt)
    ELSE NoExc

----------------------------------------------------------------------------
(* parse_xml_content *)

\* A feed is [wellformed, records]; a record maps each tag to the .text of its first
\* descendant of that name (text, or NoneText when the element has no character
\* data), or to NoElement when record.find(tag) is None.
OPTIONAL_TAGS == <<"PR_AIRDATE", "START", "EPG", "PR_CODE", "JAHR", "PLRATING", "TEMATYKA">>

InfoCount(n) == [level |-> "INFO", tag |-> "Count of records", record |-> n]

\* The logger does not name the record; the model tags each warning with the index
\* of the record being processed so that warnings can be counted per record.
Warning(i, tag) == [level |-> "WARNING", tag |-> tag, record |-> i]

\* variant: the filler test never matches
IsFiller_Never(title) == FALSE

IsFiller(title) == title = FILLER_TITLE

RECURSIVE WarningsFrom(_, _, _)
WarningsFrom(record, i, k) ==
    IF k > Len(OPTIONAL_TAGS) THEN <<>>
    ELSE (IF record[OPTIONAL_TAGS[k]] = NoElement
          THEN <<Warning(i, OPTIONAL_TAGS[k])>> ELSE <<>>)
         \o WarningsFrom(record, i, k + 1)

\* variant: the test of PR_AIRDATE is left out
MissingWarnings_NoAirdate(record, i) == WarningsFrom(record, i, 2)

\* the seven "if x is None: logger.warning(...)" statements, in order
MissingWarnings(record, i) == WarningsFrom(record, i, 1)

\* x.text if x is not None else ""
TextOrEmpty(elem) == IF elem # NoElement THEN elem ELSE <<>>

DataRow(record, title) ==
    << TextOrEmpty(record["PR_AIRDATE"]),
       TextOrEmpty(record["START"]),
       title,
       TextOrEmpty(record["EPG"]),
       TextOrEmpty(record["PR_CODE"]),
       TextOrEmpty(record["JAHR"]),
       TextOrEmpty(record["PLRATING"]),
       TextOrEmpty(record["TEMATYKA"]) >>

\* the for loop over records; record.find('.//TITEL').text raises AttributeError
\* when the record has no TITEL
RECURSIVE ParseRecords(_, _, _, _)
ParseRecords(records, i, parsed_results, lines) ==
    IF i > Len(records)
    THEN [rows |-> parsed_results, log |-> lines, exc |-> NoExc]
    ELSE LET record == records[i]
             title == record["TITEL"]
         IN  IF title = NoElement
             THEN [rows |-> <<>>, log |-> lines,
                   exc |-> Raised("AttributeError", "parse_xml_content", 0)]
             ELSE IF IsFiller(title)
             THEN ParseRecords(records, i + 1, parsed_results, lines)
             ELSE ParseRecords(records, i + 1,
                               Append(parsed_results, DataRow(record, title)),
                               lines \o MissingWarnings(record, i))

parse_xml_content(xml_content) ==
    IF ~xml_content.wellformed
    THEN [rows |-> <<>>, log |-> <<>>,
          exc |-> Raised("ParseError", "parse_xml_content", 0)]
    ELSE ParseRecords(xml_content.records, 1, <<>>,
                      <<InfoCount(Len(xml_content.records))>>)

----------------------------------------------------------------------------
(* Feeds the model draws from *)

TagText(tag) ==
    CASE tag = "PR_AIRDATE" -> <<50, 48>>
      [] tag = "START"      -> <<49, 48>>
      [] tag = "EPG"        -> <<68>>
      [] tag = "PR_CODE"    -> <<69, 49>>
      [] tag = "JAHR"       -> <<57>>
      [] tag = "PLRATING"   -> <<80, 71>>
      [] tag = "TEMATYKA"   -> <<71>>

OptionalTagSet == {OPTIONAL_TAGS[k] : k \in 1..Len(OPTIONAL_TAGS)}

\* a record with the given title whose tags in `absent` are missing and whose tags
\* in `empty` are present without character data
Rec(title, absent, empty) ==
    [tag \in OptionalTagSet \cup {"TITEL"} |->
        IF tag = "TITEL" THEN title
        ELSE IF tag \in absent THEN NoElement
        ELSE IF tag \in empty THEN NoneText
        ELSE TagText(tag)]

Titles == { <<83>>, FILLER_TITLE, FILLER_TITLE \o <<32>>, NoneText, NoElement }

Patterns == { <<{}, {}>>,
              <<{"EPG"}, {}>>,
              <<{}, {"EPG"}>>,
              <<{"PR_AIRDATE", "TEMATYKA"}, {"JAHR"}>>,
              <<OptionalTagSet, {}>> }

RecordSet == { Rec(t, p[1], p[2]) : t \in Titles, p \in Patterns }

SeqsUpTo(S, n) == UNION { [1..k -> S] : k \in 0..n }

Malformed == [wellformed |-> FALSE, records |-> <<>>]

Feed(records) == [wellformed |-> TRUE, records |-> records]

ParseFeeds == { Feed(rs) : rs \in SeqsUpTo(RecordSet, MaxRecords) } \cup {Malformed}

----------------------------------------------------------------------------
(* The remote range A2:H.  sheet[k] is sheet row k + 1; the remote stores the   *)
(* values it is sent.  An API call either is applied or raises without effect.  *)

\* variant: the clear call leaves the range as it was
batch_clear_Nothing(contents) == contents

\* sheet_to_update.batch_clear(["A2:H"])
batch_clear(contents) == <<>>

\* enumerate(data_to_update, start=2)
FIRST_DATA_ROW == 2

\* variant: enumerate(data_to_update, start=1), which writes from the header row
BatchUpdateArg_Shifted(data_to_update) ==
    [k \in 1..Len(data_to_update) |->
        [row |-> k, values |-> data_to_update[k]]]

\* the list of {"range": f"A{i}:H{i}", "values": [row]} built by the loop
BatchUpdateArg(data_to_update) ==
    [k \in 1..Len(data_to_update) |->
        [row |-> FIRST_DATA_ROW + k - 1, values |-> data_to_update[k]]]

MaxOf(S) == IF S = {} THEN 0 ELSE CHOOSE m \in S : \A x \in S : x <= m

\* sheet_to_update.batch_update(batch): every entry overwrites its own row
batch_update(contents, batch) ==
    LET written == { k \in { batch[j].row - 1 : j \in 1..Len(batch) } : k >= 1 }
        last == MaxOf(written \cup {Len(contents)})
    IN  [k \in 1..last |->
            IF k \in written
            THEN batch[CHOOSE j \in 1..Len(batch) :
                         /\ batch[j].row - 1 = k
                         /\ \A j2 \in 1..Len(batch) : batch[j2].row - 1 = k => j2 <= j].values
            ELSE IF k <= Len(contents) THEN contents[k] ELSE <<>>]

\* the effect on A2:H of one run of the body of update_google_sheet that gets as
\* far as `outcome` says
SheetAfter(contents, data_to_update, outcome) ==
    IF outcome \in {"clear_api", "clear_other"} THEN contents
    ELSE IF outcome \in {"update_api", "update_other"} THEN batch_clear(contents)
    ELSE batch_update(batch_clear(contents), BatchUpdateArg(data_to_update))

----------------------------------------------------------------------------
(* save_data_to_txt *)

RECURSIVE JoinTab(_)
\* '\t'.join(row)
JoinTab(row) ==
    IF row = <<>> THEN <<>>
    ELSE IF Len(row) = 1 THEN row[1]
    ELSE row[1] \o <<TAB>> \o JoinTab(Tail(row))

\* what the codec gives for a text it cannot encode (it raises UnicodeEncodeError)
EncodeError == <<-4>>

\* the utf-16 codec refuses a str holding a surrogate code point (U+D800..U+DFFF)
Encodable(text) == \A k \in 1..Len(text) : text[k] < 55296 \/ text[k] > 57343

RECURSIVE CodeUnits(_)
\* UTF-16 little-endian code units, as bytes, of a text without surrogate code points
CodeUnits(text) ==
    IF text = <<>> THEN <<>>
    ELSE LET c == Head(text)
             v == c - 65536
             hi == 55296 + (v \div 1024)
             lo == 56320 + (v % 1024)
         IN  (IF c < 65536
              THEN <<c % 256, c \div 256>>
              ELSE <<hi % 256, hi \div 256, lo % 256, lo \div 256>>)
             \o CodeUnits(Tail(text))

\* the bytes the encoder gives for one str, or EncodeError
Utf16Units(text) == IF Encodable(text) THEN CodeUnits(text) ELSE EncodeError

\* encoding='utf-16': a byte order mark before the first bytes written, nothing
\* when nothing is written
Utf16Encode(text) ==
    IF text = <<>> THEN <<>>
    ELSE IF Utf16Units(text) = EncodeError THEN EncodeError
    ELSE <<255, 254>> \o Utf16Units(text)

RECURSIVE WriteRows(_, _, _)
\* the loop "for row in data_to_save: file.write('\t'.join(row) + '\n')";
\* join raises TypeError on a field that is not a str, write raises
\* UnicodeEncodeError on a line the codec cannot encode, and the with block closes
\* the file with the lines written before
WriteRows(data_to_save, k, text) ==
    IF k > Len(data_to_save) THEN [text |-> text, exc |-> NoExc]
    ELSE IF \E j \in 1..Len(data_to_save[k]) : ~IsStr(data_to_save[k][j])
    THEN [text |-> text, exc |-> Raised("TypeError", "save_data_to_txt", 0)]
    ELSE IF Utf16Units(JoinTab(data_to_save[k]) \o <<NL>>) = EncodeError
    THEN [text |-> text, exc |-> Raised("UnicodeEncodeError", "save_data_to_txt", 0)]
    ELSE WriteRows(data_to_save, k + 1, text \o JoinTab(data_to_save[k]) \o <<NL>>)

\* unlink an existing file, open a new one for writing, write, close
save_data_to_txt(old_file, data_to_save) ==
    LET \* "if file_path.exists(): file_path.unlink()"
        unlinked == IF old_file # NoFile THEN NoFile ELSE old_file
        \* open('w') creates the file empty (and would truncate one that existed)
        opened == IF unlinked = NoFile THEN <<>> ELSE <<>>
        w == WriteRows(data_to_save, 1, <<>>)
    IN  [file |-> opened \o Utf16Encode(w.text), exc |-> w.exc]

----------------------------------------------------------------------------
(* Inputs of a run *)

UrlSet == { "", "http://a", "http://b" }

GoodRecord == Rec(<<83>>, {}, {})

\* the feeds a fetch may return in a run
RunFeeds ==
    { Feed(<<GoodRecord, Rec(FILLER_TITLE, {"EPG"}, {})>>),
      Feed(<<Rec(<<84>>, {"PR_AIRDATE", "TEMATYKA"}, {"JAHR"})>>),
      Feed(<<GoodRecord, Rec(NoElement, {}, {})>>) }

OldRow(c) == << <<c>>, <<c>>, <<c>>, <<c>>, <<c>>, <<c>>, <<c>>, <<c>> >>

\* what A2:H may hold before a run
InitialSheets == { <<>>, <<OldRow(111), OldRow(112), OldRow(113)>> }

----------------------------------------------------------------------------
(* The orchestrator and its guarded calls *)

\* the wrapper's handling of one attempt of a guarded call whose body ended
\* with `kind`
Attempt(op, kind, stop_after, retry_type, other_type, return_pc) ==
    LET decision == RetryDecision(attempt_number, kind, stop_after)
    IN  /\ calls' = calls + 1
        /\ last_kind' = kind
        /\ UNCHANGED cur_op
        /\ attempt_number' = IF decision = "again" THEN attempt_number + 1
                             ELSE attempt_number
        /\ exc' = RaisedBy(decision, op, attempt_number, retry_type, other_type)
        /\ pc' = IF decision = "return" THEN return_pc
                 ELSE IF decision = "again" THEN pc
                 ELSE "aborted"

\* entering a guarded call
Enter(op) ==
    /\ pc' = op
    /\ cur_op' = op
    /\ attempt_number' = 1
    /\ calls' = 0
    /\ last_kind' = "none"

\* variant: the emptiness test is left out
Truthy_Always(url) == TRUE

\* "if url:" -- the empty string is the only falsy str
Truthy(url) == url # ""

\* for url in urls_list: if url: ...   and, after the loop, the call of
\* update_google_sheet(sheet, all_results)
for_url ==
    /\ pc = "for"
    /\ IF url_i > Len(urls_list)
       THEN /\ Enter("update_google_sheet")
            /\ sheet_pre' = sheet
            /\ n_sync' = n_sync + 1
            /\ UNCHANGED url_i
       ELSE IF ~Truthy(urls_list[url_i])
       THEN /\ url_i' = url_i + 1
            /\ UNCHANGED <<pc, guard_vars, sheet_pre, n_sync>>
       ELSE /\ Enter("fetch_url")
            /\ UNCHANGED <<url_i, sheet_pre, n_sync>>
    /\ UNCHANGED <<urls_list, sheet, sheet_calls, finals, fetch_vars,
                   all_results, log, exc, sheet_data, file, sent>>

\* one attempt of fetch_url(url)
fetch_url ==
    /\ pc = "fetch_url"
    /\ \E kind \in {"ok", "retryable", "other"} :
       \E content \in (IF kind = "ok" THEN RunFeeds ELSE {response}) :
          /\ requests_log' = IF fetch_failed \/ kind # "ok" THEN <<>>
                             ELSE Append(requests_log, urls_list[url_i])
          /\ response' = content
          /\ fetched' = IF kind = "ok" THEN Append(fetched, content) ELSE fetched
          /\ fetch_failed' = (fetch_failed \/ kind # "ok")
          /\ Attempt("fetch_url", kind, FETCH_STOP_AFTER,
                     "RequestException", "OtherException", "parse_xml_content")
    /\ UNCHANGED <<urls_list, sheet, sheet_pre, sheet_calls, finals, n_sync, url_i,
                   all_results, log, sheet_data, file, sent>>

\* variant: a feed whose parse raises is skipped and the loop goes on
parse_feed_SkipsBadFeed ==
    /\ pc = "parse_xml_content"
    /\ LET r == parse_xml_content(response)
       IN  /\ log' = log \o r.log
           /\ exc' = r.exc
           /\ all_results' = all_results \o r.rows
           /\ url_i' = url_i + 1
           /\ pc' = "for"
    /\ UNCHANGED <<urls_list, sheet, sheet_pre, sheet_calls, finals, n_sync,
                   guard_vars, fetch_vars, sheet_data, file, sent>>

\* all_results.extend(parse_xml_content(response.content))
parse_feed ==
    /\ pc = "parse_xml_content"
    /\ LET r == parse_xml_content(response)
       IN  /\ log' = log \o r.log
           /\ exc' = r.exc
           /\ IF r.exc # NoExc
              THEN /\ pc' = "aborted"
                   /\ UNCHANGED <<all_results, url_i>>
              ELSE /\ all_results' = all_results \o r.rows
                   /\ url_i' = url_i + 1
                   /\ pc' = "for"
    /\ UNCHANGED <<urls_list, sheet, sheet_pre, sheet_calls, finals, n_sync,
                   guard_vars, fetch_vars, sheet_data, file,
                   sent>>

SheetKind(outcome) ==
    IF outcome = "ok" THEN "ok"
    ELSE IF outcome \in {"clear_api", "update_api"} THEN "retryable"
    ELSE "other"

\* the API calls one run of the body issues
SheetCallsOf(outcome) ==
    IF outcome \in {"clear_api", "clear_other"} THEN <<"batch_clear">>
    ELSE <<"batch_clear", "batch_update">>

\* one attempt of update_google_sheet(sheet, all_results)
update_google_sheet ==
    /\ pc = "update_google_sheet"
    /\ \E outcome \in {"ok", "clear_api", "update_api", "clear_other", "update_other"} :
          /\ sheet' = SheetAfter(sheet, all_results, outcome)
          /\ sheet_calls' = SheetCallsOf(outcome)
          /\ finals' = IF outcome = "ok" THEN Append(finals, sheet') ELSE finals
          /\ Attempt("update_google_sheet", SheetKind(outcome), SHEET_STOP_AFTER,
                     "APIError", "OtherException", "sheet.get")
    /\ UNCHANGED <<urls_list, sheet_pre, n_sync, url_i, fetch_vars,
                   all_results, log, sheet_data, file, sent>>

\* sheet_data = sheet.get("A2:H"), an unguarded API call
sheet_get ==
    /\ pc = "sheet.get"
    /\ \E ok \in BOOLEAN :
          IF ok
          THEN /\ sheet_data' = sheet
               /\ pc' = "save_data_to_txt"
               /\ UNCHANGED exc
          ELSE /\ exc' = Raised("APIError", "sheet.get", 0)
               /\ pc' = "aborted"
               /\ UNCHANGED sheet_data
    /\ UNCHANGED <<urls_list, sheet, sheet_pre, sheet_calls, finals, n_sync, url_i,
                   guard_vars, fetch_vars, all_results, log,
                   file, sent>>

\* saved_file_path = save_data_to_txt(sheet_data, output_directory) and, when it
\* returns, the call of send_email_with_attachment
save_snapshot ==
    /\ pc = "save_data_to_txt"
    /\ LET r == save_data_to_txt(file, sheet_data)
       IN  /\ file' = r.file
           /\ exc' = r.exc
           /\ IF r.exc # NoExc
              THEN /\ pc' = "aborted"
                   /\ UNCHANGED guard_vars
              ELSE Enter("send_email_with_attachment")
    /\ UNCHANGED <<urls_list, sheet, sheet_pre, sheet_calls, finals, n_sync, url_i,
                   fetch_vars, all_results, log, sheet_data, sent>>

EmailKind(outcome) ==
    IF outcome = "ok" THEN "ok"
    ELSE IF outcome \in {"smtp_before_send", "smtp_after_send"} THEN "retryable"
    ELSE "other"

\* whether server.sendmail(...) returned in a run of the body that ended `outcome`
\* ("smtp_after_send": server.quit() raised an SMTPException)
Handed(outcome) == outcome \in {"ok", "smtp_after_send"}

\* one attempt of send_email_with_attachment(saved_file_path)
send_email_with_attachment ==
    /\ pc = "send_email_with_attachment"
    /\ \E outcome \in {"ok", "smtp_before_send", "smtp_after_send", "oserror"} :
          /\ sent' = IF Handed(outcome) THEN sent + 1 ELSE sent
          /\ Attempt("send_email_with_attachment", EmailKind(outcome),
                     EMAIL_STOP_AFTER, "SMTPException", "OSError", "done")
    /\ UNCHANGED <<urls_list, sheet, sheet_pre, sheet_calls, finals, n_sync, url_i,
                   fetch_vars, all_results, log, sheet_data, file>>

----------------------------------------------------------------------------
(* A whole run *)

Init ==
    /\ urls_list \in SeqsUpTo(UrlSet, MaxUrls)
    /\ sheet \in InitialSheets
    /\ sheet_pre = sheet
    /\ sheet_calls = <<>>
    /\ finals = <<>>
    /\ n_sync = 0
    /\ pc = "for"
    /\ url_i = 1
    /\ attempt_number = 1
    /\ calls = 0
    /\ cur_op = "none"
    /\ last_kind = "none"
    /\ requests_log = <<>>
    /\ response = Malformed
    /\ fetched = <<>>
    /\ fetch_failed = FALSE
    /\ all_results = <<>>
    /\ log = <<>>
    /\ exc = NoExc
    /\ sheet_data = <<>>
    /\ file = NoFile
    /\ sent = 0

Next ==
    \/ for_url
    \/ fetch_url
    \/ parse_feed
    \/ update_google_sheet
    \/ sheet_get
    \/ save_snapshot
    \/ send_email_with_attachment

Spec == Init /\ [][Next]_vars

----------------------------------------------------------------------------
(* parse_xml_content alone: the run stands at the parse of the feed just fetched *)

InitParse ==
    /\ urls_list = <<"http://a">>
    /\ sheet = <<>>
    /\ sheet_pre = sheet
    /\ sheet_calls = <<>>
    /\ finals = <<>>
    /\ n_sync = 0
    /\ pc = "parse_xml_content"
    /\ url_i = 1
    /\ attempt_number = 1
    /\ calls = 1
    /\ cur_op = "fetch_url"
    /\ last_kind = "ok"
    /\ requests_log = <<"http://a">>
    /\ response \in ParseFeeds
    /\ fetched = <<response>>
    /\ fetch_failed = FALSE
    /\ all_results = <<>>
    /\ log = <<>>
    /\ exc = NoExc
    /\ sheet_data = <<>>
    /\ file = NoFile
    /\ sent = 0

NextParse == parse_feed

SpecParse == InitParse /\ [][NextParse]_vars

----------------------------------------------------------------------------
(* update_google_sheet alone, called up to MaxSyncCalls times with one dataset *)

SyncRowSet == { OldRow(97), OldRow(98), DataRow(GoodRecord, <<83>>) }

InitSync ==
    /\ urls_list = <<>>
    /\ sheet \in SeqsUpTo(SyncRowSet, MaxSyncRows)
    /\ sheet_pre = sheet
    /\ sheet_calls = <<>>
    /\ finals = <<>>
    /\ n_sync = 1
    /\ pc = "update_google_sheet"
    /\ url_i = 1
    /\ attempt_number = 1
    /\ calls = 0
    /\ cur_op = "update_google_sheet"
    /\ last_kind = "none"
    /\ requests_log = <<>>
    /\ response = Malformed
    /\ fetched = <<>>
    /\ fetch_failed = FALSE
    /\ all_results \in SeqsUpTo(SyncRowSet, MaxSyncRows)
    /\ log = <<>>
    /\ exc = NoExc
    /\ sheet_data = <<>>
    /\ file = NoFile
    /\ sent = 0

\* update_google_sheet(sheet, all_results) once more, after it returned
call_again ==
    /\ pc = "sheet.get"
    /\ n_sync < MaxSyncCalls
    /\ Enter("update_google_sheet")
    /\ sheet_pre' = sheet
    /\ n_sync' = n_sync + 1
    /\ UNCHANGED <<urls_list, sheet, sheet_calls, finals, url_i, fetch_vars,
                   all_results, log, exc, sheet_data, file, sent>>

NextSync ==
    \/ update_google_sheet
    \/ call_again

SpecSync == InitSync /\ [][NextSync]_vars

----------------------------------------------------------------------------
(* save_data_to_txt alone: the run stands at the call, sheet.get has returned *)

SNAP_POSITIONS == {1, 4, 8}

SnapTexts == { <<>>, <<97>>, <<TAB>>, <<NL>>, <<97, TAB, 98>>, <<324>>, <<128250>>,
               <<55296>> }

\* a row of the eight texts of GoodRecord with one field replaced
SnapRowSet ==
    { [j \in 1..8 |-> IF j = p THEN f ELSE DataRow(GoodRecord, <<83>>)[j]] :
        p \in SNAP_POSITIONS, f \in SnapTexts }

OldFile == Utf16Encode(<<111, 108, 100, NL>>)

InitSnap ==
    /\ urls_list = <<>>
    /\ sheet_data \in SeqsUpTo(SnapRowSet, MaxSnapRows)
    /\ sheet = sheet_data
    /\ sheet_pre = <<>>
    /\ sheet_calls = <<"batch_clear", "batch_update">>
    /\ finals = <<sheet>>
    /\ n_sync = 1
    /\ pc = "save_data_to_txt"
    /\ url_i = 1
    /\ attempt_number = 1
    /\ calls = 1
    /\ cur_op = "update_google_sheet"
    /\ last_kind = "ok"
    /\ requests_log = <<>>
    /\ response = Malformed
    /\ fetched = <<>>
    /\ fetch_failed = FALSE
    /\ all_results = sheet
    /\ log = <<>>
    /\ exc = NoExc
    /\ file \in {NoFile, OldFile}
    /\ sent = 0

NextSnap == save_snapshot

SpecSnap == InitSnap /\ [][NextSnap]_vars

----------------------------------------------------------------------------
(* Operators the properties are stated with *)

GuardedOps == {"fetch_url", "update_google_sheet", "send_email_with_attachment"}

\* the exception type each decorator retries on
RetryTypeOf(op) ==
    CASE op = "fetch_url" -> "RequestException"
      [] op = "update_google_sheet" -> "APIError"
      [] op = "send_email_with_attachment" -> "SMTPException"
      [] OTHER -> "none"

\* the body of the guarded call ran five times or more, each time raising the
\* retryable type (an attempt that ends otherwise ends the call)
Exhausted == cur_op \in GuardedOps /\ calls >= 5 /\ last_kind = "retryable"

NonEmptyUrls(urls) == SelectSeq(urls, LAMBDA u : u # "")

RECURSIVE ConcatRows(_)
ConcatRows(feeds) ==
    IF feeds = <<>> THEN <<>>
    ELSE parse_xml_content(Head(feeds)).rows \o ConcatRows(Tail(feeds))

FillerIdx(records) == { i \in 1..Len(records) : records[i]["TITEL"] = FILLER_TITLE }

NonFillerIdx(records) == (1..Len(records)) \ FillerIdx(records)

\* the k-th smallest element of a set of numbers
Kth(S, k) == CHOOSE x \in S : Cardinality({ y \in S : y < x }) = k - 1

\* the position in the output of the row of non-filler record i
RowIndexOf(records, i) == Cardinality({ j \in NonFillerIdx(records) : j <= i })

ColumnOf(tag) ==
    CASE tag = "PR_AIRDATE" -> 1
      [] tag = "START"      -> 2
      [] tag = "EPG"        -> 4
      [] tag = "PR_CODE"    -> 5
      [] tag = "JAHR"       -> 6
      [] tag = "PLRATING"   -> 7
      [] tag = "TEMATYKA"   -> 8

WarnCount(i, tag) == Cardinality({ k \in 1..Len(log) : log[k] = Warning(i, tag) })

RECURSIVE DecodeUnits(_)
DecodeUnits(b) ==
    IF Len(b) < 2 THEN <<>>
    ELSE LET u == b[1] + 256 * b[2]
         IN  IF u >= 55296 /\ u < 56320 /\ Len(b) >= 4
             THEN <<65536 + (u - 55296) * 1024 + (b[3] + 256 * b[4] - 56320)>>
                  \o DecodeUnits(SubSeq(b, 5, Len(b)))
             ELSE <<u>> \o DecodeUnits(SubSeq(b, 3, Len(b)))

\* decoding with the utf-16 codec: the byte order mark is consumed
Utf16Decode(bytes) ==
    IF Len(bytes) >= 2 /\ bytes[1] = 255 /\ bytes[2] = 254
    THEN DecodeUnits(SubSeq(bytes, 3, Len(bytes)))
    ELSE DecodeUnits(bytes)

RECURSIVE SplitOn(_, _)
SplitOn(text, sep) ==
    IF \A k \in 1..Len(text) : text[k] # sep THEN <<text>>
    ELSE LET k == CHOOSE n \in 1..Len(text) :
                     text[n] = sep /\ \A m \in 1..(n - 1) : text[m] # sep
         IN  <<SubSeq(text, 1, k - 1)>> \o SplitOn(SubSeq(text, k + 1, Len(text)), sep)

\* the lines of a text, each ended by a newline
Lines(text) ==
    LET parts == SplitOn(text, NL)
    IN  IF parts[Len(parts)] = <<>> THEN SubSeq(parts, 1, Len(parts) - 1) ELSE parts

\* reading the snapshot back: decode, split into lines, split each line on tab
ReadBack(bytes) ==
    LET lines == Lines(Utf16Decode(bytes))
    IN  [k \in 1..Len(lines) |-> SplitOn(lines[k], TAB)]

----------------------------------------------------------------------------
(* Properties *)

\* C1 (as stated): a guarded call whose body raised its retryable exception five
\* times in a row ends after exactly 5 attempts, never a 6th, and the exception that
\* reaches the caller is the exception the last attempt raised.
C1_UnderlyingReaches ==
    /\ cur_op \in GuardedOps => calls <= 5
    /\ Exhausted =>
          /\ pc = "aborted"
          /\ calls = 5
          /\ exc = Raised(RetryTypeOf(cur_op), cur_op, 5)

\* C1 (amended): such a call ends after exactly 5 attempts, never a 6th, and the
\* caller receives a tenacity RetryError that wraps the fifth attempt, whose
\* exception is the retryable exception that attempt raised.
C1_RetryErrorReaches ==
    /\ cur_op \in GuardedOps => calls <= 5
    /\ Exhausted =>
          /\ pc = "aborted"
          /\ calls = 5
          /\ exc = RetryError(RetryTypeOf(cur_op), cur_op, 5)

C1_Witness ==
    /\ Exhausted
    /\ cur_op = "send_email_with_attachment"
    /\ pc = "aborted"
    /\ exc.type = "RetryError"

\* C2: when a fetch ends by raising, or a parse raises, the run is aborted and the
\* synchronizer has not been and will not be called: no clear or update call on
\* A2:H, which keeps its pre-run contents, no read-back, no snapshot, no email.
C2_AbortBeforeSync ==
    (exc # NoExc /\ exc.op \in {"fetch_url", "parse_xml_content"}) =>
        /\ pc = "aborted"
        /\ n_sync = 0
        /\ sheet_calls = <<>>
        /\ sheet = sheet_pre
        /\ sheet_data = <<>>
        /\ file = NoFile
        /\ sent = 0

C2_Witness ==
    /\ pc = "aborted"
    /\ exc = RetryError("RequestException", "fetch_url", 5)
    /\ Len(all_results) >= 2
    /\ sheet # <<>>

\* C3 (as stated): whenever a call of update_google_sheet has ended, by returning or
\* by raising, A2:H holds exactly its contents before the call or exactly the new
\* dataset.
C3_Atomic ==
    pc \in {"sheet.get", "aborted"} => (sheet = sheet_pre \/ sheet = all_results)

\* C3 (amended): whenever a call of update_google_sheet has ended, A2:H holds its
\* contents before the call, or the new dataset, or nothing (cleared and not
\* rewritten), never a partially written range; when the call returned it holds
\* the new dataset.
C3_ClearedOrWhole ==
    pc \in {"sheet.get", "aborted"} =>
        /\ sheet \in {sheet_pre, all_results, <<>>}
        /\ pc = "sheet.get" => sheet = all_results

C3_Witness ==
    /\ pc = "aborted"
    /\ exc = RetryError("APIError", "update_google_sheet", 5)
    /\ sheet = <<>>
    /\ sheet_pre # <<>>
    /\ all_results # <<>>

\* C4: whenever update_google_sheet has returned for a dataset of N records, row
\* i + 1 of A2:H holds record i for every i in 1..N and nothing lies below row
\* N + 1, whatever the range held before and however many attempts failed; every
\* successful call with the same dataset left the same final state.
C4_SheetHoldsDataset ==
    pc = "sheet.get" =>
        /\ Len(sheet) = Len(all_results)
        /\ \A i \in 1..Len(all_results) : sheet[i] = all_results[i]
        /\ sheet_calls = <<"batch_clear", "batch_update">>
        /\ \A k \in 1..Len(finals) : finals[k] = finals[1]

C4_Witness ==
    /\ pc = "sheet.get"
    /\ n_sync = 2
    /\ Len(finals) = 2
    /\ attempt_number >= 3
    /\ Len(all_results) = 2

\* C5: for every feed parsed without raising, the number of rows returned is the
\* number of records found (the count logged) minus the number of records titled
\* exactly "Zakonczenie dnia" (FILLER_TITLE), and the rows are the non-filler records
\* in document order; a feed whose only record is a filler yields no row.
C5_RowCount ==
    pc = "for" =>
        LET records == response.records
            kept == NonFillerIdx(records)
        IN  /\ log[1] = InfoCount(Len(records))
            /\ Len(all_results) = log[1].record - Cardinality(FillerIdx(records))
            /\ \A k \in 1..Len(all_results) :
                  /\ Cardinality(kept) >= k
                  /\ all_results[k][3] = records[Kth(kept, k)]["TITEL"]
                  /\ all_results[k] = DataRow(records[Kth(kept, k)],
                                              records[Kth(kept, k)]["TITEL"])
            /\ (Len(records) = 1 /\ records[1]["TITEL"] = FILLER_TITLE)
                  => all_results = <<>>

C5_Witness ==
    /\ pc = "for"
    /\ Len(response.records) = 2
    /\ response.records[1]["TITEL"] = FILLER_TITLE
    /\ response.records[2]["TITEL"] = <<83>>
    /\ Len(all_results) = 1

\* C6 (as stated): for any record of a feed and each optional field whose
\* sub-element is absent from it, a warning for that field is logged exactly once
\* for that record and the column of the record's row is the empty string; no
\* warning is logged for a field whose sub-element is present.
C6_WarningPerMissingField ==
    pc = "for" =>
        LET records == response.records
        IN  \A i \in 1..Len(records) : \A tag \in OptionalTagSet :
              IF records[i][tag] = NoElement
              THEN /\ WarnCount(i, tag) = 1
                   /\ i \in NonFillerIdx(records) =>
                         all_results[RowIndexOf(records, i)][ColumnOf(tag)] = <<>>
              ELSE WarnCount(i, tag) = 0

\* C6 (amended): in a feed parsed without raising, for any record that is not a
\* filler and each optional field whose sub-element is absent from it, a warning for
\* that field is logged exactly once for that record and the column of the record's
\* row is the empty string; no warning is logged for a field whose sub-element is
\* present, and none at all for a filler record, which is skipped before the checks.
C6_WarningPerMissingFieldOfKeptRecord ==
    pc = "for" =>
        LET records == response.records
        IN  \A i \in 1..Len(records) : \A tag \in OptionalTagSet :
              IF i \in NonFillerIdx(records) /\ records[i][tag] = NoElement
              THEN /\ WarnCount(i, tag) = 1
                   /\ all_results[RowIndexOf(records, i)][ColumnOf(tag)] = <<>>
              ELSE WarnCount(i, tag) = 0

C6_Witness ==
    /\ pc = "for"
    /\ Len(response.records) = 2
    /\ response.records[1]["TITEL"] = FILLER_TITLE
    /\ response.records[1]["EPG"] = NoElement
    /\ response.records[2]["TITEL"] = <<83>>
    /\ response.records[2]["PR_AIRDATE"] = NoElement
    /\ response.records[2]["TEMATYKA"] = NoElement
    /\ WarnCount(2, "TEMATYKA") = 1

\* C7 (as stated): every field of every row parse_xml_content returns is a string;
\* a sub-element that is present without text yields the empty string, not None.
C7_AllFieldsAreStrings ==
    pc = "for" =>
        \A k \in 1..Len(all_results) : \A j \in 1..Len(all_results[k]) :
            IsStr(all_results[k][j])

\* C8 (as stated): when a run in which no fetch attempt failed has ended, the URLs
\* fetched are the non-empty entries of the URL list, in list order, each once, and
\* the dataset handed to the synchronizer is the concatenation, in that order, of
\* the rows parsed from each feed.
C8_FetchesAllUrls ==
    (pc \in {"done", "aborted"} /\ ~fetch_failed) =>
        /\ requests_log = NonEmptyUrls(urls_list)
        /\ n_sync >= 1 => all_results = ConcatRows(fetched)

\* C8 (amended): the same, for a run in which no fetch attempt failed and no parse
\* raised: such a run reaches the synchronizer, and from that call on the URLs
\* fetched are the non-empty entries of the URL list, in list order, each once, and
\* the dataset handed over is the concatenation of the feeds' rows.
C8_FetchesAllUrlsWhenParsed ==
    (~fetch_failed /\ (n_sync >= 1 \/ (pc \in {"done", "aborted"}
                                        /\ exc.op # "parse_xml_content"))) =>
        /\ n_sync >= 1
        /\ requests_log = NonEmptyUrls(urls_list)
        /\ Len(fetched) = Len(requests_log)
        /\ all_results = ConcatRows(fetched)

C8_Witness ==
    /\ pc = "done"
    /\ ~fetch_failed
    /\ urls_list = <<"", "http://a", "http://b">>
    /\ requests_log = <<"http://a", "http://b">>
    /\ Len(all_results) = 2

\* C9 (as stated): once save_data_to_txt has written a committed dataset of N
\* records, reading the file back (decode, split into lines, split each line on
\* tab) yields N rows of 8 fields each, equal to the committed dataset.
C9_SnapshotRoundTrip ==
    (pc = "send_email_with_attachment" /\ calls = 0) =>
        /\ Len(ReadBack(file)) = Len(sheet_data)
        /\ \A k \in 1..Len(sheet_data) : Len(ReadBack(file)[k]) = 8
        /\ ReadBack(file) = sheet_data

\* C10 (as stated): in a run the message is handed to the mail relay at most once,
\* and only after the sheet synchronization and the snapshot write have completed.
C10_SentAtMostOnce ==
    /\ sent <= 1
    /\ sent >= 1 => (n_sync >= 1 /\ finals # <<>> /\ file # NoFile)

====
